---- MODULE Spec2Model ----
(***************************************************************************)
(* Model of kvstore.py: an append-only log file (data.db), the in-memory   *)
(* dict `store`, load_store (replay), save_set (append, then apply),       *)
(* get_value and the command loop of main.                                 *)
(*                                                                         *)
(* Strings are sequences of one-character strings, so that strip, split,   *)
(* startswith and the line iteration of a text file are computed as        *)
(* Python computes them.                                                   *)
(***************************************************************************)
EXTENDS Integers, Sequences, FiniteSets, TLC

VARIABLES
    fileExists,   \* os.path.exists(DATA_FILE)
    log,          \* content of DATA_FILE, a sequence of characters
    store,        \* the dict `store`: a function from keys to values
    pc,           \* position of the process
    interactive,  \* sys.stdin.isatty() of the running session
    stdout,       \* lines print() wrote on sys.stdout in the last step
    stderr,       \* kinds of message written on sys.stderr in the last step
    cmd,          \* branch of lines 93-116 the last input line took
    arg,          \* parts[1] of the last GET
    key,          \* arguments of the save_set call in progress or last made
    value,
    appended,     \* the last save_set call left the with-block normally
    pre,          \* history: store at entry of the last save_set call
    sess,         \* history: key -> value of the records this session appended and synced
    readLog,      \* history: the lines load_store read in this session
    readFailed,   \* history: load_store caught IOError/OSError in this session
    setFailed,    \* history: a save_set call of this session caught IOError/OSError
    nCmds,        \* input lines consumed so far (all sessions)
    nFaults,      \* injected I/O failures and kills so far
    nRestarts     \* process starts after the first one

vars == <<fileExists, log, store, pc, interactive, stdout, stderr, cmd, arg,
          key, value, appended, pre, sess, readLog, readFailed, setFailed,
          nCmds, nFaults, nRestarts>>

----------------------------------------------------------------------------
(* Bounds of the exploration.                                              *)

MaxCmds == 2
MaxFaults == 1
MaxRestarts == 1
MaxLines == 3
MaxSaves == 2

----------------------------------------------------------------------------
(* Constants of the program and characters.                                *)

CMD_SET == <<"S", "E", "T">>
CMD_GET == <<"G", "E", "T">>
CMD_EXIT == <<"E", "X", "I", "T">>

SP == <<" ">>
TAB == <<"\t">>
NL == <<"\n">>

\* str.isspace() on the characters used here
IsSpace(c) == c \in {" ", "\t", "\n"}

\* the empty dict
EmptyStore == <<>>

----------------------------------------------------------------------------
(* Python string operations.                                               *)

RECURSIVE LStrip(_)
LStrip(s) ==
    IF s = <<>> THEN <<>>
    ELSE IF IsSpace(Head(s)) THEN LStrip(Tail(s))
    ELSE s

RECURSIVE RStrip(_)
RStrip(s) ==
    IF s = <<>> THEN <<>>
    ELSE IF IsSpace(s[Len(s)]) THEN RStrip(SubSeq(s, 1, Len(s) - 1))
    ELSE s

\* str.strip()
Strip(s) == RStrip(LStrip(s))

\* length of the leading run of non-whitespace characters of s
RECURSIVE TokenLen(_)
TokenLen(s) ==
    IF s = <<>> THEN 0
    ELSE IF IsSpace(Head(s)) THEN 0
    ELSE 1 + TokenLen(Tail(s))

\* str.split(None, maxsplit): runs of whitespace separate the tokens; once
\* maxsplit splits are made the remainder is taken whole, leading whitespace
\* skipped and trailing whitespace kept
RECURSIVE Split(_, _)
Split(s, maxsplit) ==
    LET t == LStrip(s) IN
    IF t = <<>> THEN <<>>
    ELSE IF maxsplit = 0 THEN <<t>>
    ELSE LET n == TokenLen(t) IN
         <<SubSeq(t, 1, n)>> \o Split(SubSeq(t, n + 1, Len(t)), maxsplit - 1)

\* str.startswith(p)
StartsWith(s, p) == Len(s) >= Len(p) /\ SubSeq(s, 1, Len(p)) = p

\* index of the first "\n" of s, 0 when there is none
RECURSIVE FirstNL(_)
FirstNL(s) ==
    IF s = <<>> THEN 0
    ELSE IF Head(s) = "\n" THEN 1
    ELSE LET r == FirstNL(Tail(s)) IN IF r = 0 THEN 0 ELSE r + 1

\* `for line in f`: the lines of a text file, each with its "\n", the last
\* one without when the file does not end in "\n"
RECURSIVE FileLines(_)
FileLines(f) ==
    IF f = <<>> THEN <<>>
    ELSE LET i == FirstNL(f) IN
         IF i = 0 THEN <<f>>
         ELSE <<SubSeq(f, 1, i)>> \o FileLines(SubSeq(f, i + 1, Len(f)))

\* concatenation of a sequence of strings
RECURSIVE Concat(_)
Concat(ss) == IF ss = <<>> THEN <<>> ELSE Head(ss) \o Concat(Tail(ss))

----------------------------------------------------------------------------
(* The dict `store`.                                                       *)

\* store[k] = v
Put(st, k, v) == [x \in (DOMAIN st) \cup {k} |-> IF x = k THEN v ELSE st[x]]

\* Python's None, distinct from every string
None == <<"None">>

----------------------------------------------------------------------------
(* load_store.                                                             *)

\* lines 41-45: the <<key, value>> a line of the file contributes, <<>> when
\* the line is skipped
ParseLineNoPrefix(line) ==
    LET l == Strip(line)
        p == Split(l, 2)
    IN  IF Len(p) = 3 THEN <<p[2], p[3]>> ELSE <<>>

ParseLine(line) ==
    LET l == Strip(line)
        p == Split(l, 2)
    IN  IF StartsWith(l, CMD_SET \o SP) /\ Len(p) = 3
        THEN <<p[2], p[3]>>
        ELSE <<>>

\* line 46 under the conditions of lines 42 and 44
ApplyLineAccumulate(st, line) ==
    LET r == ParseLine(line) IN
    IF r = <<>> THEN st
    ELSE Put(st, r[1], (IF r[1] \in DOMAIN st THEN st[r[1]] ELSE <<>>) \o r[2])

ApplyLineKeepFirst(st, line) ==
    LET r == ParseLine(line) IN
    IF r = <<>> \/ r[1] \in DOMAIN st THEN st ELSE Put(st, r[1], r[2])

ApplyLine(st, line) ==
    LET r == ParseLine(line) IN
    IF r = <<>> THEN st ELSE Put(st, r[1], r[2])

\* the loop of line 40 over the lines read
RECURSIVE ReplayLines(_, _)
ReplayLines(st, lines) ==
    IF lines = <<>> THEN st
    ELSE ReplayLines(ApplyLine(st, Head(lines)), Tail(lines))

\* load_store on a file whose read raises after nRead lines were delivered
\* (nRead = number of lines of the file: no failure)
load_store(st, exists, f, nRead) ==
    IF ~exists THEN st
    ELSE ReplayLines(st, SubSeq(FileLines(f), 1, nRead))

\* what lines 35-36 and 47-48 write on sys.stderr: nothing for a missing
\* file, the logged error when open or read raised
LoadMessagesNoExistsCheck(exists, failed) ==
    IF failed \/ ~exists THEN {"logging.error"} ELSE {}

LoadMessages(exists, failed) == IF failed THEN {"logging.error"} ELSE {}

\* where main continues after load_store: the except clause of line 47
\* swallows the error, line 80 follows in both cases
AfterLoadRaise(failed) == IF failed THEN "uncaught" ELSE "loop"

AfterLoad(failed) == "loop"

\* load_store of a process that starts with an empty dict and reads all of f
Replay(f) == load_store(EmptyStore, TRUE, f, Len(FileLines(f)))

----------------------------------------------------------------------------
(* save_set and get_value.                                                 *)

\* line 58: f"{CMD_SET} {key} {value}\n"
RecordLine(k, v) == CMD_SET \o SP \o k \o SP \o v \o NL

\* lines 57-59: the file after data was written through open(DATA_FILE, 'a')
AppendToTruncating(f, data) == data

AppendTo(f, data) == f \o data

\* where save_set continues after the with-block of lines 57-60: line 61 when
\* the block left normally, the except clause of line 62 when it raised
AfterAppendAlways(ok) == "apply"

AfterAppendRaise(ok) == IF ok THEN "apply" ELSE "uncaught"

AfterAppend(ok) == IF ok THEN "apply" ELSE "ack"

\* line 72: store.get(key)
get_value_default(st, k) == IF k \in DOMAIN st THEN st[k] ELSE <<>>

get_value(st, k) == IF k \in DOMAIN st THEN st[k] ELSE None

\* line 101: the line print() writes for a GET
PrintLineRepr(v) == IF v = None THEN None ELSE v

PrintLine(v) == IF v = None THEN <<>> ELSE v

----------------------------------------------------------------------------
(* The command loop of main.                                               *)

\* line 96: parts = line.strip().split(None, 2)
ParseCommandNoStrip(line) == Split(line, 2)

ParseCommand(line) == Split(Strip(line), 2)

\* lines 96-116: the branch taken for `parts`; "error" is the IndexError that
\* parts[0] raises at line 111 on an empty list
DispatchLooseGet(p) ==
    IF Len(p) >= 2 /\ p[1] = CMD_GET THEN "get"
    ELSE IF Len(p) >= 3 /\ p[1] = CMD_SET THEN "set"
    ELSE IF p = <<>> THEN "error"
    ELSE IF p[1] = CMD_EXIT THEN "exit"
    ELSE "invalid"

Dispatch(p) ==
    IF Len(p) = 2 /\ p[1] = CMD_GET THEN "get"
    ELSE IF Len(p) >= 3 /\ p[1] = CMD_SET THEN "set"
    ELSE IF p = <<>> THEN "error"
    ELSE IF p[1] = CMD_EXIT THEN "exit"
    ELSE "invalid"

\* where main is after the branch: in save_set (line 106), out of the loop
\* (break of line 112), ended by the IndexError, or back at line 88
AfterDispatchNoBreak(d) ==
    CASE d = "set" -> "save_set"
      [] d = "error" -> "uncaught"
      [] OTHER -> "loop"

AfterDispatch(d) ==
    CASE d = "set" -> "save_set"
      [] d = "exit" -> "done"
      [] d = "error" -> "uncaught"
      [] OTHER -> "loop"

\* what a guarded print(..., file=sys.stderr) writes
IfInteractive(tty, msg) == IF tty THEN {msg} ELSE {}

----------------------------------------------------------------------------
(* Inputs.                                                                 *)

KeyA == <<"a">>
KeyB == <<"b">>

\* the lines input() returns (without their line terminator)
InputLines ==
    { CMD_SET \o SP \o KeyA \o SP \o <<"2">>,                 \* SET a 2
      CMD_SET \o SP \o KeyB \o SP \o <<"1", " ", "2">>,       \* SET b 1 2
      SP \o CMD_SET \o TAB \o KeyB \o SP \o SP \o <<"2">> \o SP, \* " SET\tb  2 "
      CMD_GET \o SP \o KeyA,                                  \* GET a
      CMD_GET \o SP \o KeyB,                                  \* GET b
      CMD_EXIT,                                               \* EXIT
      <<>>,                                                   \* empty line
      SP,                                                     \* " "
      CMD_GET,                                                \* GET
      CMD_GET \o SP \o KeyA \o SP \o KeyB,                    \* GET a b
      CMD_SET \o SP \o KeyA,                                  \* SET a
      <<"X">> }                                               \* X

\* the data file found by the first process: absent, or left by earlier runs
InitFiles ==
    { [exists |-> FALSE, content |-> <<>>],
      [exists |-> TRUE,  content |-> RecordLine(KeyA, <<"1">>)] }

----------------------------------------------------------------------------
(* The program.                                                            *)

Init ==
    /\ \E f \in InitFiles : fileExists = f.exists /\ log = f.content
    /\ store = EmptyStore
    /\ pc = "boot"
    /\ interactive = FALSE
    /\ stdout = <<>>
    /\ stderr = {}
    /\ cmd = "none"
    /\ arg = <<>>
    /\ key = <<>>
    /\ value = <<>>
    /\ appended = FALSE
    /\ pre = EmptyStore
    /\ sess = EmptyStore
    /\ readLog = <<>>
    /\ readFailed = FALSE
    /\ setFailed = FALSE
    /\ nCmds = 0
    /\ nFaults = 0
    /\ nRestarts = 0

\* lines 79-84: load_store reads the whole file, then the banner
Boot(tty) ==
    /\ pc = "boot"
    /\ store' = load_store(store, fileExists, log, Len(FileLines(log)))
    /\ readLog' = IF fileExists THEN FileLines(log) ELSE <<>>
    /\ readFailed' = FALSE
    /\ interactive' = tty
    /\ stderr' = LoadMessages(fileExists, FALSE) \cup IfInteractive(tty, "banner")
    /\ stdout' = <<>>
    /\ pc' = AfterLoad(FALSE)
    /\ UNCHANGED <<setFailed, fileExists, log, cmd, arg, key, value, appended, pre,
                   sess, nCmds, nFaults, nRestarts>>

\* lines 79-84 when open() or the iteration of line 40 raises OSError after
\* n lines: lines 47-48 log the error and main goes on
BootReadFail(tty) ==
    /\ pc = "boot"
    /\ fileExists
    /\ nFaults < MaxFaults
    /\ \E n \in 0..Len(FileLines(log)) :
          /\ store' = load_store(store, fileExists, log, n)
          /\ readLog' = SubSeq(FileLines(log), 1, n)
    /\ readFailed' = TRUE
    /\ interactive' = tty
    /\ stderr' = LoadMessages(fileExists, TRUE) \cup IfInteractive(tty, "banner")
    /\ stdout' = <<>>
    /\ pc' = AfterLoad(TRUE)
    /\ nFaults' = nFaults + 1
    /\ UNCHANGED <<setFailed, fileExists, log, cmd, arg, key, value, appended, pre,
                   sess, nCmds, nRestarts>>

\* lines 88, 93-116 up to the call of save_set: one input line is read and
\* dispatched
ReadLine(line) ==
    /\ pc = "loop"
    /\ nCmds < MaxCmds
    /\ nCmds' = nCmds + 1
    /\ LET p == ParseCommand(line)
           d == IF line = <<>> THEN "continue" ELSE Dispatch(p)
       IN  /\ cmd' = d
           /\ arg' = IF d = "get" THEN p[2] ELSE <<>>
           /\ stdout' = IF d = "get"
                        THEN <<PrintLine(get_value(store, p[2]))>>
                        ELSE <<>>
           /\ stderr' = IF d = "invalid" THEN IfInteractive(interactive, "invalid")
                        ELSE IF d = "error" THEN {"traceback"}
                        ELSE {}
           /\ pc' = AfterDispatch(d)
           /\ key' = IF d = "set" THEN p[2] ELSE key
           /\ value' = IF d = "set" THEN p[3] ELSE value
           /\ pre' = IF d = "set" THEN store ELSE pre
           /\ appended' = IF d = "set" THEN FALSE ELSE appended
    /\ UNCHANGED <<setFailed, fileExists, log, store, interactive, sess, readLog,
                   readFailed, nFaults, nRestarts>>

\* lines 88-91: input() raises EOFError or KeyboardInterrupt
EndOfInput ==
    /\ pc = "loop"
    /\ stderr' = {"exiting"}
    /\ stdout' = <<>>
    /\ cmd' = "eof"
    /\ arg' = <<>>
    /\ pc' = "done"
    /\ UNCHANGED <<setFailed, fileExists, log, store, interactive, key, value,
                   appended, pre, sess, readLog, readFailed, nCmds,
                   nFaults, nRestarts>>

\* lines 57-60 without failure: the record is appended, flushed and synced
SaveAppend ==
    /\ pc = "save_set"
    /\ fileExists' = TRUE
    /\ log' = AppendTo(log, RecordLine(key, value))
    /\ appended' = TRUE
    /\ sess' = Put(sess, key, value)
    /\ stderr' = {}
    /\ stdout' = <<>>
    /\ pc' = AfterAppend(TRUE)
    /\ UNCHANGED <<setFailed, store, interactive, cmd, arg, key, value, pre, readLog,
                   readFailed, nCmds, nFaults, nRestarts>>

\* line 57 raises OSError: nothing is written, lines 62-63 log the error
SaveOpenFail ==
    /\ pc = "save_set"
    /\ nFaults < MaxFaults
    /\ nFaults' = nFaults + 1
    /\ appended' = FALSE
    /\ setFailed' = TRUE
    /\ stderr' = {"logging.error"}
    /\ stdout' = <<>>
    /\ pc' = AfterAppend(FALSE)
    /\ UNCHANGED <<fileExists, log, store, interactive, cmd, arg, key, value,
                   pre, sess, readLog, readFailed, nCmds, nRestarts>>

\* lines 58-59 raise OSError (disk full, I/O error) after the first n
\* characters of the record reached the file
SaveWriteFail ==
    /\ pc = "save_set"
    /\ nFaults < MaxFaults
    /\ nFaults' = nFaults + 1
    /\ fileExists' = TRUE
    /\ \E n \in 0..(Len(RecordLine(key, value)) - 1) :
          log' = AppendTo(log, SubSeq(RecordLine(key, value), 1, n))
    /\ appended' = FALSE
    /\ setFailed' = TRUE
    /\ stderr' = {"logging.error"}
    /\ stdout' = <<>>
    /\ pc' = AfterAppend(FALSE)
    /\ UNCHANGED <<store, interactive, cmd, arg, key, value, pre, sess,
                   readLog, readFailed, nCmds, nRestarts>>

\* line 60 raises OSError: the flush of line 59 has written the record
SaveSyncFail ==
    /\ pc = "save_set"
    /\ nFaults < MaxFaults
    /\ nFaults' = nFaults + 1
    /\ fileExists' = TRUE
    /\ log' = AppendTo(log, RecordLine(key, value))
    /\ appended' = FALSE
    /\ setFailed' = TRUE
    /\ stderr' = {"logging.error"}
    /\ stdout' = <<>>
    /\ pc' = AfterAppend(FALSE)
    /\ UNCHANGED <<store, interactive, cmd, arg, key, value, pre, sess,
                   readLog, readFailed, nCmds, nRestarts>>

\* line 61: store[key] = value
SaveApply ==
    /\ pc = "apply"
    /\ store' = Put(store, key, value)
    /\ stderr' = {}
    /\ stdout' = <<>>
    /\ pc' = "ack"
    /\ UNCHANGED <<setFailed, fileExists, log, interactive, cmd, arg, key, value, appended,
                   pre, sess, readLog, readFailed, nCmds, nFaults, nRestarts>>

\* lines 107-108: the acknowledgment after save_set returned
Ack ==
    /\ pc = "ack"
    /\ stderr' = IfInteractive(interactive, "ok")
    /\ stdout' = <<>>
    /\ pc' = "loop"
    /\ UNCHANGED <<setFailed, fileExists, log, store, interactive, cmd, arg, key, value,
                   appended, pre, sess, readLog, readFailed, nCmds,
                   nFaults, nRestarts>>

\* the process is killed or the machine stops while the loop waits or
\* save_set runs; killed inside the write of lines 58-59, the first n
\* characters of the record are in the file
Kill ==
    /\ pc \in {"loop", "save_set", "apply", "ack"}
    /\ nFaults < MaxFaults
    /\ nFaults' = nFaults + 1
    /\ IF pc = "save_set"
       THEN \E n \in 0..(Len(RecordLine(key, value)) - 1) :
              /\ log' = AppendTo(log, SubSeq(RecordLine(key, value), 1, n))
              /\ fileExists' = (fileExists \/ n > 0)
       ELSE UNCHANGED <<fileExists, log>>
    /\ stderr' = {}
    /\ stdout' = <<>>
    /\ pc' = "killed"
    /\ UNCHANGED <<setFailed, store, interactive, cmd, arg, key, value, appended, pre,
                   sess, readLog, readFailed, nCmds, nRestarts>>

\* the program is started again: a new process with an empty dict
Restart ==
    /\ pc \in {"done", "uncaught", "killed"}
    /\ nRestarts < MaxRestarts
    /\ nRestarts' = nRestarts + 1
    /\ store' = EmptyStore
    /\ sess' = EmptyStore
    /\ interactive' = FALSE
    /\ stderr' = {}
    /\ stdout' = <<>>
    /\ cmd' = "none"
    /\ arg' = <<>>
    /\ appended' = FALSE
    /\ readLog' = <<>>
    /\ readFailed' = FALSE
    /\ setFailed' = FALSE
    /\ pc' = "boot"
    /\ UNCHANGED <<fileExists, log, key, value, pre, nCmds, nFaults>>

Next ==
    \/ \E tty \in BOOLEAN : Boot(tty)
    \/ \E tty \in BOOLEAN : BootReadFail(tty)
    \/ \E line \in InputLines : ReadLine(line)
    \/ EndOfInput
    \/ SaveAppend
    \/ SaveOpenFail
    \/ SaveWriteFail
    \/ SaveSyncFail
    \/ SaveApply
    \/ Ack
    \/ Kill
    \/ Restart

Spec == Init /\ [][Next]_vars

----------------------------------------------------------------------------
(* The functions of the module called directly: load_store, save_set and   *)
(* get_value on arbitrary data files, keys and values.                     *)

\* lines a data file may hold, without their terminator
SampleLines ==
    { CMD_SET \o SP \o KeyA \o SP \o <<"1">>,                 \* SET a 1
      CMD_SET \o SP \o KeyA \o SP \o <<"2">>,                 \* SET a 2
      CMD_SET \o SP \o KeyB \o SP \o <<"1", " ", "2">>,       \* SET b 1 2
      SP \o CMD_SET \o SP \o SP \o KeyB \o TAB \o <<"2">> \o SP, \* " SET  b\t2 "
      CMD_SET \o TAB \o KeyA \o SP \o <<"1">>,                \* SET\ta 1
      CMD_GET \o SP \o KeyA \o SP \o <<"1">>,                 \* GET a 1
      CMD_SET \o SP \o KeyA,                                  \* SET a
      <<"X">>,                                                \* X
      <<>> }                                                  \* empty line

\* the sequences of at most n elements of S
RECURSIVE SeqsUpTo(_, _)
SeqsUpTo(S, n) ==
    IF n = 0 THEN {<<>>}
    ELSE LET R == SeqsUpTo(S, n - 1) IN
         R \cup {<<x>> \o r : x \in S, r \in {q \in R : Len(q) = n - 1}}

\* every line terminated
Terminated(ls) == Concat([i \in 1..Len(ls) |-> ls[i] \o NL])

\* data files: sample lines, the last one with or without its "\n"
SampleFiles ==
    {Terminated(ls) : ls \in SeqsUpTo(SampleLines, MaxLines)}
    \cup {SubSeq(Terminated(ls), 1, Len(Terminated(ls)) - 1) :
            ls \in SeqsUpTo(SampleLines, MaxLines) \ {<<>>}}

\* arguments of save_set: keys without whitespace, any value
ApiKeys == {KeyA, KeyB}
ApiValues == {<<"1">>, <<"1", " ", "2">>, <<>>, <<" ", "1">>, <<"1", " ">>}

InitFrom(files) ==
    /\ \E f \in files : fileExists = f.exists /\ log = f.content
    /\ store = EmptyStore
    /\ pc = "api"
    /\ interactive = FALSE
    /\ stdout = <<>>
    /\ stderr = {}
    /\ cmd = "none"
    /\ arg = <<>>
    /\ key = <<>>
    /\ value = <<>>
    /\ appended = FALSE
    /\ pre = EmptyStore
    /\ sess = EmptyStore
    /\ readLog = <<>>
    /\ readFailed = FALSE
    /\ setFailed = FALSE
    /\ nCmds = 0
    /\ nFaults = 0
    /\ nRestarts = 0

\* load_store() reading the whole file
ApiLoad ==
    /\ pc = "api"
    /\ pre' = store
    /\ store' = load_store(store, fileExists, log, Len(FileLines(log)))
    /\ cmd' = "load"
    /\ UNCHANGED <<setFailed, fileExists, log, pc, interactive, stdout, stderr, arg, key,
                   value, appended, sess, readLog, readFailed, nCmds, nFaults,
                   nRestarts>>

\* save_set(k, v) without I/O failure
ApiSave(k, v) ==
    /\ pc = "api"
    /\ nCmds < MaxSaves
    /\ nCmds' = nCmds + 1
    /\ fileExists' = TRUE
    /\ log' = AppendTo(log, RecordLine(k, v))
    /\ pre' = store
    /\ store' = Put(store, k, v)
    /\ key' = k
    /\ value' = v
    /\ appended' = TRUE
    /\ cmd' = "save"
    /\ UNCHANGED <<setFailed, pc, interactive, stdout, stderr, arg, sess, readLog,
                   readFailed, nFaults, nRestarts>>

\* get_value(k)
ApiGet(k) ==
    /\ pc = "api"
    /\ arg' = k
    /\ stdout' = <<get_value(store, k)>>
    /\ cmd' = "get"
    /\ UNCHANGED <<setFailed, fileExists, log, store, pc, interactive, stderr, key,
                   value, appended, pre, sess, readLog, readFailed, nCmds,
                   nFaults, nRestarts>>

\* a new process: the dict is empty again
ApiRestart ==
    /\ pc = "api"
    /\ cmd # "restart"
    /\ store' = EmptyStore
    /\ cmd' = "restart"
    /\ UNCHANGED <<setFailed, fileExists, log, pc, interactive, stdout, stderr, arg, key,
                   value, appended, pre, sess, readLog, readFailed, nCmds,
                   nFaults, nRestarts>>

NextApi ==
    \/ ApiLoad
    \/ \E k \in ApiKeys : \E v \in ApiValues : ApiSave(k, v)
    \/ \E k \in ApiKeys : ApiGet(k)
    \/ ApiRestart

\* save_set, load_store and get_value on the data files of InitFiles
InitApi == InitFrom(InitFiles)

SpecApi == InitApi /\ [][NextApi]_vars

\* load_store on the data files of SampleFiles
InitReplay ==
    InitFrom({[exists |-> FALSE, content |-> <<>>]}
             \cup {[exists |-> TRUE, content |-> c] : c \in SampleFiles})

NextReplay ==
    \/ ApiLoad
    \/ ApiRestart

SpecReplay == InitReplay /\ [][NextReplay]_vars

----------------------------------------------------------------------------
(* Properties.                                                             *)

\* the dict a new process builds from the data file as it is now
Replayed == load_store(EmptyStore, fileExists, log, Len(FileLines(log)))

\* C1: whenever no SET is in progress (the loop waits for input or has
\* ended) in a session whose startup replay read the whole file, replaying
\* the log file in order yields exactly the dict `store`.
C1_LogReplaysToCache ==
    (pc \in {"loop", "done"} /\ ~readFailed) => Replayed = store

\* C2: a SET whose open, write or sync failed leaves every get(key) as it
\* was before the call.
C2_FailedSetKeepsCache ==
    (pc \in {"ack", "loop"} /\ cmd = "set" /\ ~appended)
        => \A k \in (DOMAIN store) \cup (DOMAIN pre) \cup {key} :
               get_value(store, k) = get_value(pre, k)

\* a SET of a key that holds another value has failed and been acknowledged
C2_Witness ==
    /\ pc = "loop" /\ cmd = "set" /\ ~appended
    /\ key \in DOMAIN store
    /\ store[key] # value

\* C3: the dict never holds a pair written in this session that a replay of
\* the log would not yield, and once the record is written and synced (the
\* dict not yet updated) a restart and replay yields get(key) = value.
C3_LogBeforeCache ==
    /\ \A k \in DOMAIN sess :
           (pc \in {"loop", "save_set", "apply", "ack"}
              /\ k \in DOMAIN store /\ store[k] = sess[k]
              /\ (pc \in {"save_set", "apply"} => k # key))
           => get_value(Replayed, k) = sess[k]
    /\ pc = "apply" => get_value(Replayed, key) = value

\* C4: "(OK)" is written only for a SET whose record was flushed and synced.
C4_AckOnlyAfterSync ==
    "ok" \in stderr => appended

\* C5: save_set(key, value) with a key without whitespace and any value,
\* then a new process and load_store, gives get_value(key) = value.
C5_RoundTrip ==
    (cmd = "load" /\ pre = EmptyStore /\ appended)
        => get_value(store, key) = value

\* the value of the last line of `lines` that is a record of key k, None
\* when no line is
LastRecordValue(lines, k) ==
    LET I == {i \in 1..Len(lines) :
                 ParseLine(lines[i]) # <<>> /\ ParseLine(lines[i])[1] = k}
    IN  IF I = {} THEN None
        ELSE ParseLine(lines[CHOOSE i \in I : \A j \in I : j <= i])[2]

\* the keys of the records among `lines`
RecordKeys(lines) ==
    {ParseLine(lines[i])[1] : i \in {j \in 1..Len(lines) : ParseLine(lines[j]) # <<>>}}

\* C6: after load_store into an empty dict, get_value(key) is the value of
\* the last valid record of that key in file order, and None for every key
\* without a valid record.
C6_LastWriteWins ==
    (cmd = "load" /\ pre = EmptyStore)
        => \A k \in (DOMAIN store) \cup RecordKeys(FileLines(log)) \cup {KeyA, KeyB, <<"c">>} :
               get_value(store, k) = LastRecordValue(FileLines(log), k)

\* a file with two records of one key and different values has been replayed
C6_Witness ==
    /\ cmd = "load" /\ pre = EmptyStore
    /\ \E i, j \in 1..Len(FileLines(log)) :
          /\ i < j
          /\ ParseLine(FileLines(log)[i]) # <<>>
          /\ ParseLine(FileLines(log)[j]) # <<>>
          /\ ParseLine(FileLines(log)[i])[1] = ParseLine(FileLines(log)[j])[1]
          /\ ParseLine(FileLines(log)[i])[2] # ParseLine(FileLines(log)[j])[2]

\* a line of the record grammar: surrounding whitespace apart, the marker
\* SET and a space, then a key token and a value remainder
IsRecordLine(line) ==
    LET t == Strip(line)
        toks == Split(t, Len(t))
    IN  Len(toks) >= 3 /\ toks[1] = CMD_SET /\ t[Len(CMD_SET) + 1] = " "

\* C7: load_store into an empty dict yields what it yields on the same file
\* with every line removed that is not of the record grammar.
C7_MalformedLinesIgnored ==
    (cmd = "load" /\ pre = EmptyStore /\ fileExists)
        => store = Replay(Concat(SelectSeq(FileLines(log), IsRecordLine)))

\* a file with a malformed line between two records has been replayed
C7_Witness ==
    /\ cmd = "load" /\ pre = EmptyStore /\ fileExists
    /\ \E i, j, k \in 1..Len(FileLines(log)) :
          /\ i < j /\ j < k
          /\ IsRecordLine(FileLines(log)[i])
          /\ ~IsRecordLine(FileLines(log)[j])
          /\ Strip(FileLines(log)[j]) # <<>>
          /\ IsRecordLine(FileLines(log)[k])

\* C8: no input line ends the process with an uncaught exception.
C8_NoLineIsFatal ==
    pc # "uncaught"

\* C9: a session that is not interactive writes nothing on sys.stderr.
C9_SilentWhenNotInteractive ==
    ~interactive => stderr = {}

\* what GET k is to print: the value of the last SET of k that succeeded in
\* this session, else the value of k in the replayed log, else ""
ExpectedLine(k) ==
    IF k \in DOMAIN sess THEN sess[k]
    ELSE LET v == LastRecordValue(readLog, k) IN IF v = None THEN <<>> ELSE v

C11_AppendOnly ==
    [][StartsWith(log', log) /\ (fileExists => fileExists')]_vars

\* a record has been appended to a file that already had content
C11_Witness ==
    /\ pc = "apply"
    /\ Len(log) > Len(RecordLine(key, value))

\* C12: when opening or reading the existing log raises OSError during
\* replay, the error is logged, the dict holds the valid records of some
\* prefix of the file's lines, and the command loop starts.
C12_ReadFailureTolerated ==
    (readFailed /\ cmd = "none" /\ pc # "killed")
        => /\ pc = "loop"
           /\ "logging.error" \in stderr
           /\ \E n \in 0..Len(FileLines(log)) :
                 \A k \in (DOMAIN store) \cup RecordKeys(FileLines(log)) :
                     get_value(store, k)
                         = LastRecordValue(SubSeq(FileLines(log), 1, n), k)

\* the loop has started on a dict that lacks records of the file
C12_Witness ==
    /\ readFailed /\ cmd = "none" /\ pc = "loop"
    /\ store # Replayed

\* C13: after a SET failed the loop reads on; a later GET prints the value
\* from before the failure, and a later SET whose append succeeds ends the
\* file with its record and is in the dict.
C13_ContinuesAfterWriteFailure ==
    /\ (cmd = "set" /\ ~appended /\ pc \notin {"save_set", "ack", "killed"})
           => pc = "loop"
    /\ (setFailed /\ ~appended /\ cmd = "get" /\ pc = "loop")
           => stdout = <<PrintLine(get_value(pre, arg))>>
    /\ (setFailed /\ appended /\ cmd = "set" /\ pc \in {"ack", "loop"})
           => /\ get_value(store, key) = value
              /\ Len(log) >= Len(RecordLine(key, value))
              /\ SubSeq(log, Len(log) - Len(RecordLine(key, value)) + 1, Len(log))
                     = RecordLine(key, value)

\* a SET has succeeded in a session in which an earlier SET failed
C13_Witness ==
    setFailed /\ appended /\ cmd = "set" /\ pc = "loop"

\* C14: load_store run again on the same file, with no write in between,
\* leaves the dict as the first run made it.
C14_ReplayIdempotent ==
    (cmd = "load" /\ pre # EmptyStore) => store = pre

\* a file with records of two keys has been replayed twice
C14_Witness ==
    /\ cmd = "load" /\ pre # EmptyStore
    /\ Cardinality(DOMAIN pre) >= 2

\* C15: started without a log file, load_store leaves the dict empty, logs
\* no error and creates no file; the first append that succeeds creates the
\* file with its record.
C15_MissingFileStartup ==
    [][/\ (pc = "boot" /\ ~fileExists /\ pc' # "boot")
            => /\ ~fileExists'
               /\ log' = log
               /\ store' = EmptyStore
               /\ "logging.error" \notin stderr'
               /\ ~readFailed'
               /\ pc' = "loop"
       /\ (~fileExists /\ ~appended /\ appended')
            => /\ fileExists'
               /\ log' = RecordLine(key, value)]_vars

\* the first SET of a run started without a log file has written its record
C15_Witness ==
    /\ pc = "apply" /\ nFaults = 0 /\ nRestarts = 0
    /\ readLog = <<>>
    /\ log = RecordLine(key, value)

\* no line of the file names k as the key of a SET
NeverSet(k) ==
    \A i \in 1..Len(FileLines(log)) :
        LET p == Split(FileLines(log)[i], 2) IN Len(p) < 2 \/ p[2] # k

\* C16: get_value(key) returns a result for every key, leaves the dict and
\* the log file as they are, and returns None for a key that was never set.
C16_GetIsPure ==
    [][cmd' = "get"
         => /\ store' = store
            /\ log' = log
            /\ fileExists' = fileExists
            /\ Len(stdout') = 1
            /\ NeverSet(arg') => stdout'[1] = None]_vars

\* get_value of an absent key on a dict that holds other keys
C16_Witness ==
    /\ cmd = "get"
    /\ store # EmptyStore
    /\ arg \notin DOMAIN store
    /\ stdout = <<None>>

\* C17: EXIT, end-of-input and an interrupt end the loop, and a process
\* that has ended appends nothing to the log and updates no dict.
C17_NoWritesAfterTermination ==
    [][/\ cmd' \in {"exit", "eof"} => pc' = "done"
       /\ pc \in {"done", "killed", "uncaught"}
            => /\ log' = log
               /\ fileExists' = fileExists
               /\ store' = store \/ pc' = "boot"]_vars

\* EXIT has ended a session that had written a record
C17_Witness ==
    /\ pc = "done" /\ cmd = "exit"
    /\ sess # EmptyStore

\* the <<key, value>> pairs SET commands supply: those of the input lines
\* and those of the records earlier runs left in the data file
SuppliedPairs ==
    {<<ParseCommand(l)[2], ParseCommand(l)[3]>> :
        l \in {x \in InputLines : x # <<>> /\ Dispatch(ParseCommand(x)) = "set"}}
    \cup UNION {{<<k, Replay(f.content)[k]>> : k \in DOMAIN Replay(f.content)} :
                   f \in InitFiles}

\* C18: whatever prefix of a record a crash during an append leaves in the
\* file, after restarts, replays and further SETs every value the dict holds
\* for a key is a value some SET command supplied for that key.
C18_TornWriteSafety ==
    pc \in {"loop", "save_set", "apply", "ack", "done"}
        => \A k \in DOMAIN store : <<k, store[k]>> \in SuppliedPairs

MalformedCommands ==
    { CMD_GET,
      CMD_GET \o SP \o KeyA \o SP \o KeyB,
      CMD_SET \o SP \o KeyA,
      <<"X">> }

\* C20: a line that is not GET with one key, SET with key and value, or
\* EXIT -- `SET key`, `GET`, `GET k1 k2` among them -- takes no GET or SET
\* branch and leaves the dict and the log file as they are.
C20_InvalidLinesChangeNothing ==
    [][/\ \A l \in MalformedCommands : Dispatch(ParseCommand(l)) = "invalid"
       /\ cmd' \in {"invalid", "continue", "error"}
            => /\ store' = store
               /\ log' = log
               /\ fileExists' = fileExists
               /\ stdout' = <<>>]_vars

\* an invalid line has been handled by a session whose dict holds a key
C20_Witness ==
    /\ pc = "loop" /\ cmd = "invalid"
    /\ store # EmptyStore
    /\ log # <<>>

====
